---------------------------- MODULE Spec2Model ----------------------------
(***************************************************************************)
(* die-stats: exact discrete probability distributions over dice.          *)
(*                                                                         *)
(* A distribution (Die) is its field `probabilities`: a sequence of        *)
(* Probability records [value, chance].  `value` is an i32; `chance` is an *)
(* f64 in the source and is modelled as an exact rational <<num, den>> in  *)
(* lowest terms (den >= 1), the arithmetic the properties are stated in.   *)
(*                                                                         *)
(* The library is a set of pure functions.  The state machine is a caller  *)
(* evaluating one chained expression: a constructor call builds the        *)
(* distribution `die`, operator calls are then applied to it.  `call`      *)
(* records the last call with its inputs, `panicked` whether it panicked,  *)
(* `build` whether i32 overflow checks are on (debug) or off (release).    *)
(***************************************************************************)
EXTENDS Integers, Sequences, FiniteSets, TLC

VARIABLES die, call, panicked, build, ops

vars == <<die, call, panicked, build, ops>>

---------------------------------------------------------------------------
(* Bounds of the model *)

\* calls in one run
MaxOps == 2
\* length of a value list or entry list handed to a constructor
MaxLen == 2
\* number of distributions in a drop pool
MaxTimes == 3

---------------------------------------------------------------------------
(* i32 *)

I32Max == 2147483647
I32Min == (-I32Max) - 1

\* a + b leaves the i32 range (computed without leaving it)
I32Overflows(a, b) ==
    \/ b > 0 /\ a > I32Max - b
    \/ b < 0 /\ a < I32Min - b

\* i32 `+` where overflow checks are off: the sum modulo 2^32
I32Add(a, b) ==
    IF b > 0 /\ a > I32Max - b THEN (a + I32Min) + (b + I32Min)
    ELSE IF b < 0 /\ a < I32Min - b THEN (a - I32Min) + (b - I32Min)
    ELSE a + b

---------------------------------------------------------------------------
(* chances: exact rationals <<num, den>> *)

RECURSIVE Gcd(_, _)
Gcd(a, b) == IF b = 0 THEN a ELSE Gcd(b, a % b)

Abs(n) == IF n < 0 THEN -n ELSE n

Frac(n, d) ==
    LET g == Gcd(Abs(n), d)
    IN  IF n = 0 THEN <<0, 1>> ELSE <<n \div g, d \div g>>

Zero == <<0, 1>>
One == <<1, 1>>

\* f64 `+` and `*` on chances (over the least common denominator, and with the
\* common factors taken out first, to keep the intermediate numbers small)
ChanceAdd(x, y) ==
    LET g == Gcd(x[2], y[2])
    IN  Frac(x[1] * (y[2] \div g) + y[1] * (x[2] \div g), (x[2] \div g) * y[2])
ChanceMul(x, y) ==
    LET a == Frac(x[1], y[2])
        b == Frac(y[1], x[2])
    IN  Frac(a[1] * b[1], a[2] * b[2])

\* an i32 as a chance-typed number (f64::from)
FromInt(n) == <<n, 1>>

---------------------------------------------------------------------------
(* probability.rs *)

Probability(v, c) == [value |-> v, chance |-> c]

\* the impl with `+` on the chances as on the values
Probability_add_chances_added(self, other) ==
    Probability(I32Add(self.value, other.value),
                ChanceAdd(self.chance, other.chance))

\* impl Add for Probability: values add, chances multiply
Probability_add(self, other) ==
    Probability(I32Add(self.value, other.value),
                ChanceMul(self.chance, other.chance))

\* impl Mul<f64> for Probability: chance scaled, value kept
Probability_mul(self, rhs) ==
    Probability(self.value, ChanceMul(self.chance, rhs))

\* equality as #[derive(PartialEq)] would give it: value and chance
Probability_eq_derived(a, b) == a.value = b.value /\ a.chance = b.chance

\* PartialEq for Probability: by value only
Probability_eq(a, b) == a.value = b.value

\* Ord for Probability: by value only
Probability_le(a, b) == a.value <= b.value

---------------------------------------------------------------------------
(* common.rs *)

\* every value gets chance 1/(number of distinct values)
values_to_probabilities_distinct(values) ==
    [i \in 1..Len(values) |->
        Probability(values[i],
                    Frac(1, Cardinality({values[k] : k \in 1..Len(values)})))]

\* every value gets chance 1/len
values_to_probabilities(values) ==
    [i \in 1..Len(values) |-> Probability(values[i], Frac(1, Len(values)))]

\* the turn with `insert` in place of `+=`: a later entry replaces the chance
value_map_step_overwrite(value_map, prob) ==
    IF prob.value \in DOMAIN value_map
    THEN [value_map EXCEPT ![prob.value] = prob.chance]
    ELSE value_map @@ (prob.value :> prob.chance)

\* the turn without the `+=`: the first chance of a value stays
value_map_step_keep_first(value_map, prob) ==
    IF prob.value \in DOMAIN value_map THEN value_map
    ELSE value_map @@ (prob.value :> prob.chance)

\* one turn of the loop over `values`: add to the value's chance, or insert it
value_map_step(value_map, prob) ==
    IF prob.value \in DOMAIN value_map
    THEN [value_map EXCEPT ![prob.value] = ChanceAdd(@, prob.chance)]
    ELSE value_map @@ (prob.value :> prob.chance)

\* the HashMap after the turns for values[lo..hi], taken in order (the range is
\* halved only to keep the evaluation shallow; the turns stay left to right)
RECURSIVE ValueMap(_, _, _, _)
ValueMap(values, lo, hi, value_map) ==
    IF lo > hi THEN value_map
    ELSE IF lo = hi THEN value_map_step(value_map, values[lo])
    ELSE LET mid == (lo + hi) \div 2
             left == ValueMap(values, lo, mid, value_map)
         IN  \* the test makes TLC compute `left` before it goes on
             IF DOMAIN left = {} THEN left
             ELSE ValueMap(values, mid + 1, hi, left)

\* where a key falls in the map's iteration order: HashMap iterates in an
\* order that has nothing to do with the keys' order
HashOf(key, size) == ((key % 7) * 3 + size) % 7

\* `for (key, value) in value_map { result.push(..) }`: the entries in the map's
\* iteration order
HashMapIter(value_map) ==
    LET keys == DOMAIN value_map
        n == Cardinality(keys)
        before(a, b) == \/ HashOf(a, n) < HashOf(b, n)
                        \/ HashOf(a, n) = HashOf(b, n) /\ a > b
        pos == [k \in keys |-> Cardinality({j \in keys : before(j, k)}) + 1]
    IN  [p \in 1..n |->
            LET key == CHOOSE k \in keys : pos[k] = p
            IN  Probability(key, value_map[key])]

\* Vec::sort: stable, by Ord for Probability (the value alone)
Sort(s) ==
    LET n == Len(s)
        pos == [i \in 1..n |->
                   Cardinality({j \in 1..n :
                       \/ ~Probability_le(s[i], s[j])
                       \/ Probability_le(s[j], s[i]) /\ j < i}) + 1]
    IN  [p \in 1..n |-> s[CHOOSE i \in 1..n : pos[i] = p]]

\* compress_additive with the final `result.sort()` left out
compress_additive_unsorted(values) ==
    HashMapIter(ValueMap(values, 1, Len(values), <<>>))

compress_additive(values) ==
    Sort(HashMapIter(ValueMap(values, 1, Len(values), <<>>)))

\* fold(0.0, |acc, prob| acc + prob.chance * f64::from(prob.value)) over the
\* first n entries
RECURSIVE calc_mean_fold(_, _)
calc_mean_fold(values, n) ==
    IF n = 0 THEN Zero
    ELSE ChanceAdd(calc_mean_fold(values, n - 1),
                   ChanceMul(values[n].chance, FromInt(values[n].value)))

calc_mean(values) == calc_mean_fold(values, Len(values))

\* fold(0.0, |acc, prob| acc + prob.chance * f64::from(prob.value * prob.value))
\* over the first n entries; the square is an i32 product, which the values
\* squared here (below 46341 in size) do not overflow
RECURSIVE calc_variance_fold(_, _)
calc_variance_fold(values, n) ==
    IF n = 0 THEN Zero
    ELSE ChanceAdd(calc_variance_fold(values, n - 1),
                   ChanceMul(values[n].chance, FromInt(values[n].value * values[n].value)))

\* a - b on f64
ChanceSub(x, y) == ChanceAdd(x, <<-y[1], y[2]>>)

\* calc_variance without the `- (mean * mean)`
calc_variance_second_moment(values) == calc_variance_fold(values, Len(values))

calc_variance(values) ==
    LET mean == calc_mean(values)
    IN  ChanceSub(calc_variance_fold(values, Len(values)), ChanceMul(mean, mean))

---------------------------------------------------------------------------
(* die.rs: constructors *)

\* empty() as a distribution of no entry
Die_empty_no_entry == <<>>

\* the neutral distribution
Die_empty == <<Probability(0, One)>>

\* from_probabilities without the `is_empty()` branch
Die_from_probabilities_unguarded(probabilities) ==
    compress_additive(probabilities)

Die_from_probabilities(probabilities) ==
    IF probabilities = <<>> THEN Die_empty
    ELSE compress_additive(probabilities)

Die_from_values(values) ==
    Die_from_probabilities(values_to_probabilities(values))

\* (start..=end).collect(): empty when end < start
RangeInclusive(start, end) == [i \in 1..(end - start + 1) |-> start + (i - 1)]

RECURSIVE Die_from_range(_, _)
Die_from_range(start, end) ==
    IF end < start THEN Die_from_range(end, start)
    ELSE Die_from_values(RangeInclusive(start, end))

\* new without the `sides == 0` branch
Die_new_unguarded(sides) == Die_from_range(1, sides)

Die_new(sides) ==
    IF sides = 0 THEN Die_empty ELSE Die_from_range(1, sides)

\* Iterator::min() is None on an empty Vec, and unwrap() panics on None
get_min_panics(self) == self = <<>>

\* iter().min(): the first of the entries no entry is below
get_min(self) ==
    LET least == {i \in DOMAIN self : \A j \in DOMAIN self : Probability_le(self[i], self[j])}
    IN  self[CHOOSE i \in least : \A j \in least : i <= j].value

get_max_panics(self) == self = <<>>

\* iter().max(): the last of the entries no entry is above
get_max(self) ==
    LET greatest == {i \in DOMAIN self : \A j \in DOMAIN self : Probability_le(self[j], self[i])}
    IN  self[CHOOSE i \in greatest : \A j \in greatest : j <= i].value

\* PartialEq for Die: `==` on the two Vec<Probability<i32>>, which is equal
\* length and `==` entry by entry
Die_eq(self, other) ==
    /\ Len(self) = Len(other)
    /\ \A i \in DOMAIN self : Probability_eq(self[i], other[i])

get_mean(self) == calc_mean(self)

get_variance(self) == calc_variance(self)

---------------------------------------------------------------------------
(* die.rs: impl ProbabilityDistribution<i32> for Die *)

\* ss[lo] \o ... \o ss[hi]
RECURSIVE FlattenRange(_, _, _)
FlattenRange(ss, lo, hi) ==
    IF lo > hi THEN <<>>
    ELSE IF lo = hi THEN ss[lo]
    ELSE LET mid == (lo + hi) \div 2
         IN  FlattenRange(ss, lo, mid) \o FlattenRange(ss, mid + 1, hi)

\* Iterator::flat_map(..).collect(): the inner sequences, concatenated in order
Flatten(ss) == FlattenRange(ss, 1, Len(ss))

\* add_independent without the from_probabilities that merges equal sums
add_independent_unmerged(self, probability_distribution) ==
    Flatten(
        [o \in 1..Len(probability_distribution) |->
            [i \in 1..Len(self) |->
                Probability_add(probability_distribution[o], self[i])]])

\* add_independent with each pair given the chance of its outer entry alone
add_independent_outer_chance(self, probability_distribution) ==
    Die_from_probabilities(Flatten(
        [o \in 1..Len(probability_distribution) |->
            [i \in 1..Len(self) |->
                Probability(I32Add(probability_distribution[o].value, self[i].value),
                            probability_distribution[o].chance)]]))

add_independent(self, probability_distribution) ==
    Die_from_probabilities(Flatten(
        [o \in 1..Len(probability_distribution) |->
            [i \in 1..Len(self) |->
                Probability_add(probability_distribution[o], self[i])]]))

\* some `*outer_prob + *inner_prob` of add_independent overflows i32
add_independent_overflows(self, probability_distribution) ==
    \E o \in 1..Len(probability_distribution), i \in 1..Len(self) :
        I32Overflows(probability_distribution[o].value, self[i].value)

\* the comparison with `<=` and `>=` read as `<` and `>`
Compare_strict(condition, prob, range) ==
    CASE condition = "Lower" -> prob < range
      [] condition = "LowerOrEqual" -> prob < range
      [] condition = "Equal" -> prob = range
      [] condition = "GreaterOrEqual" -> prob > range
      [] condition = "Greater" -> prob > range

\* the i32 comparison an ExplodingCondition stands for
Compare(condition, prob, range) ==
    CASE condition = "Lower" -> prob < range
      [] condition = "LowerOrEqual" -> prob <= range
      [] condition = "Equal" -> prob = range
      [] condition = "GreaterOrEqual" -> prob >= range
      [] condition = "Greater" -> prob > range

\* a callback F: Fn(&i32) -> Die of the shape the tests and the exploding
\* helpers use: `if value <cond> range { hit } else { miss }`
callback_fn(cb, value) ==
    IF Compare(cb.cond, value, cb.range) THEN cb.hit ELSE cb.miss

\* add_dependent with each pair given the chance of its follow-up entry alone
add_dependent_inner_chance(self, cb) ==
    Die_from_probabilities(Flatten(
        [o \in 1..Len(self) |->
            LET inner == callback_fn(cb, self[o].value)
            IN  [i \in 1..Len(inner) |->
                    Probability(I32Add(self[o].value, inner[i].value), inner[i].chance)]]))

\* add_dependent with the callback evaluated once, on the first value
add_dependent_callback_once(self, cb) ==
    Die_from_probabilities(Flatten(
        [o \in 1..Len(self) |->
            LET inner == callback_fn(cb, self[1].value)
            IN  [i \in 1..Len(inner) |-> Probability_add(self[o], inner[i])]]))

add_dependent(self, cb) ==
    Die_from_probabilities(Flatten(
        [o \in 1..Len(self) |->
            LET inner == callback_fn(cb, self[o].value)
            IN  [i \in 1..Len(inner) |-> Probability_add(self[o], inner[i])]]))

add_dependent_overflows(self, cb) ==
    \E o \in 1..Len(self) :
        LET inner == callback_fn(cb, self[o].value)
        IN  \E i \in 1..Len(inner) : I32Overflows(self[o].value, inner[i].value)

\* conditional_chain without the `* outer_prob.chance`
conditional_chain_unscaled(self, cb) ==
    Die_from_probabilities(Flatten(
        [o \in 1..Len(self) |-> callback_fn(cb, self[o].value)]))

\* conditional_chain with the pair added as add_dependent adds it
conditional_chain_adding(self, cb) ==
    Die_from_probabilities(Flatten(
        [o \in 1..Len(self) |->
            LET inner == callback_fn(cb, self[o].value)
            IN  [i \in 1..Len(inner) |-> Probability_add(self[o], inner[i])]]))

conditional_chain(self, cb) ==
    Die_from_probabilities(Flatten(
        [o \in 1..Len(self) |->
            LET inner == callback_fn(cb, self[o].value)
            IN  [i \in 1..Len(inner) |-> Probability_mul(inner[i], self[o].chance)]]))

\* add_flat with the increase taken off the value
add_flat_subtracting(self, flat_increase) ==
    Die_from_probabilities(
        [i \in 1..Len(self) |->
            Probability(I32Add(self[i].value, -flat_increase), self[i].chance)])

add_flat(self, flat_increase) ==
    Die_from_probabilities(
        [i \in 1..Len(self) |->
            Probability(I32Add(self[i].value, flat_increase), self[i].chance)])

add_flat_overflows(self, flat_increase) ==
    \E i \in 1..Len(self) : I32Overflows(self[i].value, flat_increase)

---------------------------------------------------------------------------
(* normal_initializer.rs: trait NormalInitializer<T, P>, with T = i32, P = Die *)

\* the trait's one required method; Die's impl of it is not among the
\* repository's files and is written from the specification's 4.2
NormalInitializer_from_probabilities(probabilities) ==
    IF probabilities = <<>> THEN <<Probability(0, One)>>
    ELSE compress_additive(probabilities)

NormalInitializer_from_values(values) ==
    NormalInitializer_from_probabilities(values_to_probabilities(values))

NormalInitializer_empty == NormalInitializer_from_values(<<0>>)

RECURSIVE NormalInitializer_from_range(_, _)
NormalInitializer_from_range(start, end) ==
    IF end < start THEN NormalInitializer_from_range(end, start)
    ELSE NormalInitializer_from_values(RangeInclusive(start, end))

NormalInitializer_new(size) ==
    IF size < 0 THEN NormalInitializer_from_range(size, -1)
    ELSE IF size = 0 THEN NormalInitializer_empty
    ELSE NormalInitializer_from_range(1, size)

---------------------------------------------------------------------------
(* lib.rs: the single-file Die.  Its values_to_probabilities,             *)
(* compress_additive, add_independent, add_dependent and add_flat are     *)
(* line for line those of common.rs and die.rs; what differs is below.    *)

Lib_empty == <<Probability(0, One)>>

Lib_from_probabilities(probabilities) ==
    IF probabilities = <<>> THEN Lib_empty
    ELSE compress_additive(probabilities)

Lib_from_values(values) ==
    Lib_from_probabilities(values_to_probabilities(values))

\* panic!("Can't create a Die with the given parameters")
Lib_from_range_panics(start, end) == end < start

\* the value returned when it does not panic
Lib_from_range(start, end) ==
    IF end - start = 0 THEN Lib_empty
    ELSE Lib_from_values(RangeInclusive(start, end))

Lib_new_panics(sides) == sides # 0 /\ Lib_from_range_panics(1, sides)

Lib_new(sides) ==
    IF sides = 0 THEN Lib_empty ELSE Lib_from_range(1, sides)

Lib_conditional_chain(self, cb) ==
    Lib_from_probabilities(compress_additive(Flatten(
        [o \in 1..Len(self) |->
            LET inner == callback_fn(cb, self[o].value)
            IN  [i \in 1..Len(inner) |-> Probability_mul(inner[i], self[o].chance)]])))

---------------------------------------------------------------------------
(* exploding_initializer.rs (generic over P) and exploding_constructor.rs  *)
(* (impl for Die)                                                          *)

exploding_helper(exploding_range, exploding_condition, exploding) ==
    [cond |-> exploding_condition, range |-> exploding_range,
     hit |-> exploding, miss |-> NormalInitializer_empty]

exploding_die_helper(exploding_range, exploding_condition, exploding_die) ==
    [cond |-> exploding_condition, range |-> exploding_range,
     hit |-> exploding_die, miss |-> Die_empty]

ExplodingInitializer_exploding_from_probabilities(probabilities, exploding_range, exploding_condition, exploding) ==
    add_dependent(NormalInitializer_from_probabilities(probabilities),
                  exploding_helper(exploding_range, exploding_condition, exploding))

ExplodingInitializer_exploding_from_range(start, end, exploding_range, exploding_condition, exploding) ==
    add_dependent(NormalInitializer_from_range(start, end),
                  exploding_helper(exploding_range, exploding_condition, exploding))

ExplodingInitializer_exploding_from_values(values, exploding_range, exploding_condition, exploding) ==
    add_dependent(NormalInitializer_from_values(values),
                  exploding_helper(exploding_range, exploding_condition, exploding))

ExplodingInitializer_new_exploding(amount, exploding_range, exploding_condition, exploding) ==
    add_dependent(NormalInitializer_new(amount),
                  exploding_helper(exploding_range, exploding_condition, exploding))

\* new_exploding through conditional_chain in place of add_dependent
Die_new_exploding_chained(sides, exploding_range, exploding_condition, exploding_die) ==
    conditional_chain(Die_new(sides),
                      exploding_die_helper(exploding_range, exploding_condition, exploding_die))

Die_new_exploding(sides, exploding_range, exploding_condition, exploding_die) ==
    add_dependent(Die_new(sides),
                  exploding_die_helper(exploding_range, exploding_condition, exploding_die))

\* exploding_from_range with the callback applied to the result once more
Die_exploding_from_range_twice(start, end, exploding_range, exploding_condition, exploding_die) ==
    add_dependent(
        add_dependent(Die_from_range(start, end),
                      exploding_die_helper(exploding_range, exploding_condition, exploding_die)),
        exploding_die_helper(exploding_range, exploding_condition, exploding_die))

Die_exploding_from_range(start, end, exploding_range, exploding_condition, exploding_die) ==
    add_dependent(Die_from_range(start, end),
                  exploding_die_helper(exploding_range, exploding_condition, exploding_die))

Die_exploding_from_values(values, exploding_range, exploding_condition, exploding_die) ==
    add_dependent(Die_from_values(values),
                  exploding_die_helper(exploding_range, exploding_condition, exploding_die))

Die_exploding_from_probabilities(probabilities, exploding_range, exploding_condition, exploding_die) ==
    add_dependent(Die_from_probabilities(probabilities),
                  exploding_die_helper(exploding_range, exploding_condition, exploding_die))

---------------------------------------------------------------------------
(* drop_initializer.rs *)

\* the fold of prep: every partial combination extended by every entry of curr
prep_extend(acc, curr) ==
    Flatten([p \in 1..Len(acc) |->
                [v \in 1..Len(curr) |-> Append(acc[p], curr[v])]])

\* the combinations of entries after folding in dice i..Len(probability_structs)
RECURSIVE prep_fold(_, _, _)
prep_fold(probability_structs, i, acc) ==
    IF i > Len(probability_structs) THEN acc
    ELSE prep_fold(probability_structs, i + 1,
                   prep_extend(acc, probability_structs[i]))

\* the chance of the n-th entry alone in place of the product
prep_chance_last(combination, n) ==
    IF n = 0 THEN One ELSE combination[n].chance

\* fold((vec![], 1.0), ..) over the first n entries of a combination
RECURSIVE prep_chance(_, _)
prep_chance(combination, n) ==
    IF n = 0 THEN One
    ELSE ChanceMul(prep_chance(combination, n - 1), combination[n].chance)

\* every combination as [values, chance]
prep(probability_structs) ==
    IF probability_structs = <<>> THEN <<>>
    ELSE LET first == [i \in 1..Len(probability_structs[1]) |->
                          <<probability_structs[1][i]>>]
             combinations == prep_fold(probability_structs, 2, first)
         IN  [c \in 1..Len(combinations) |->
                [values |-> [j \in 1..Len(combinations[c]) |-> combinations[c][j].value],
                 chance |-> prep_chance(combinations[c], Len(combinations[c]))]]

\* no sort: the values stay in the order of the distributions
SortInt_unsorted(s) == s

\* Vec<i32>::sort
SortInt(s) ==
    LET n == Len(s)
        pos == [i \in 1..n |->
                   Cardinality({j \in 1..n : s[j] < s[i] \/ (s[j] = s[i] /\ j < i)}) + 1]
    IN  [p \in 1..n |-> s[CHOOSE i \in 1..n : pos[i] = p]]

\* no reverse
Reverse_identity(s) == s

\* Vec::reverse
Reverse(s) == [i \in 1..Len(s) |-> s[Len(s) + 1 - i]]

\* the loop stopping short of the last value
PopTimes_keep_one(s, drop_amount) ==
    SubSeq(s, 1, IF drop_amount >= Len(s) THEN 1 ELSE Len(s) - drop_amount)

\* `for _ in 0..drop_amount { new_values.pop(); }`: pop of an empty Vec is None
PopTimes(s, drop_amount) ==
    SubSeq(s, 1, IF drop_amount >= Len(s) THEN 0 ELSE Len(s) - drop_amount)

\* into_iter().sum() over the first n values, overflow checks off
RECURSIVE SumI32(_, _)
SumI32(s, n) == IF n = 0 THEN 0 ELSE I32Add(SumI32(s, n - 1), s[n])

\* the sum overflows i32 at some addition
RECURSIVE SumI32Overflows(_, _)
SumI32Overflows(s, n) ==
    IF n = 0 THEN FALSE
    ELSE SumI32Overflows(s, n - 1) \/ I32Overflows(SumI32(s, n - 1), s[n])

\* the values one combination keeps, with `High => reverse()` and `Low => ()`
drop_keep_swapped(values, drop_condition, drop_amount) ==
    LET sorted == SortInt(values)
        ordered == IF drop_condition = "High" THEN Reverse(sorted) ELSE sorted
    IN  PopTimes(ordered, drop_amount)

\* the values one combination keeps
drop_keep(values, drop_condition, drop_amount) ==
    LET sorted == SortInt(values)
        ordered == IF drop_condition = "Low" THEN Reverse(sorted) ELSE sorted
    IN  PopTimes(ordered, drop_amount)

drop_by_condition(probability_structs, drop_condition, drop_amount) ==
    LET combinations == prep(probability_structs)
    IN  NormalInitializer_from_probabilities(
            [c \in 1..Len(combinations) |->
                LET new_values == drop_keep(combinations[c].values, drop_condition, drop_amount)
                IN  Probability(SumI32(new_values, Len(new_values)), combinations[c].chance)])

drop_by_condition_overflows(probability_structs, drop_condition, drop_amount) ==
    LET combinations == prep(probability_structs)
    IN  \E c \in 1..Len(combinations) :
            LET new_values == drop_keep(combinations[c].values, drop_condition, drop_amount)
            IN  SumI32Overflows(new_values, Len(new_values))

\* vec![x; times]
Repeat(x, times) == [i \in 1..times |-> x]

drop_from_probabilities(probabilities, times, drop_amount, drop_condition) ==
    drop_by_condition(Repeat(NormalInitializer_from_probabilities(probabilities), times),
                      drop_condition, drop_amount)

drop_from_range(start, end, times, drop_amount, drop_condition) ==
    drop_by_condition(Repeat(NormalInitializer_from_range(start, end), times),
                      drop_condition, drop_amount)

drop_from_values(values, times, drop_amount, drop_condition) ==
    drop_by_condition(Repeat(NormalInitializer_from_values(values), times),
                      drop_condition, drop_amount)

\* new_drop with as many distributions as the die has sides
new_drop_amount_times(amount, times, drop_amount, drop_condition) ==
    drop_by_condition(Repeat(NormalInitializer_new(amount), amount),
                      drop_condition, drop_amount)

new_drop(amount, times, drop_amount, drop_condition) ==
    drop_by_condition(Repeat(NormalInitializer_new(amount), times),
                      drop_condition, drop_amount)

---------------------------------------------------------------------------
(* The inputs the caller draws from *)

Conditions == {"Lower", "LowerOrEqual", "Equal", "GreaterOrEqual", "Greater"}
DropTypes == {"High", "Low"}

Sides == {-2, 0, 1, 2, 4, 6}
RangeEnds == {1, 2, 4}
InputValues == {-1, 2}

\* the sequences over S of length at most n
SeqsUpTo(S, n) == UNION {[1..k -> S] : k \in 0..n}

ValueLists == SeqsUpTo(InputValues, MaxLen) \cup {<<2, -1, 2>>}
InputEntries == {Probability(1, <<1, 2>>), Probability(2, <<1, 4>>)}
EntryLists == SeqsUpTo(InputEntries, MaxLen)

\* distributions handed to add_independent
Operands ==
    {Die_empty, Die_new(2), Die_new(6), Die_from_values(<<0, I32Max>>),
     Die_from_probabilities(<<Probability(1, <<1, 4>>), Probability(2, <<3, 4>>)>>)}

FlatIncreases == {-1, 2, I32Max}

Callback(c, r, h, m) == [cond |-> c, range |-> r, hit |-> h, miss |-> m]

\* callbacks handed to add_dependent and conditional_chain
Callbacks ==
    {Callback("Equal", 4, Die_new(4), Die_empty),
     Callback("Equal", 2, Die_new(2), Die_new(0)),
     Callback("Equal", 1, Die_new(2), Die_new(3)),
     Callback("Lower", 2, Die_from_values(<<0, I32Max>>), Die_new(2))}

\* callbacks handed to the conditional_chain of lib.rs
LibCallbacks ==
    {Callback("Equal", 1, Die_new(2), Die_new(3)),
     Callback("GreaterOrEqual", 2, Die_new(1), Die_empty)}

\* inputs of the exploding initializers
ExplodingRanges == {1, 2}
ExplodingDice == {Die_new(2)}
ExplodingSides == {2}
ExplodingBounds == {1, 2}
ExplodingValues == {<<>>, <<1, 2>>}
ExplodingEntries ==
    {<<>>,
     <<Probability(1, <<1, 2>>), Probability(2, <<1, 2>>)>>,
     <<Probability(2, <<3, 4>>), Probability(1, <<1, 4>>)>>}

\* inputs of the drop initializers
PoolLists ==
    SeqsUpTo({Die_new(2)}, MaxTimes) \cup {<<Die_new(2), Die_from_values(<<1, 3>>)>>}
DropSides == {0, 2}
DropStarts == {1, 2}
DropEnds == {1, 2}
DropValues == {<<>>, <<2, 1>>}
DropEntries ==
    {<<>>, <<Probability(2, <<1, 2>>), Probability(1, <<1, 2>>)>>}

\* <<times, drop_amount, drop_condition>>: up to one more dropped than there
\* are distributions
DropCounts ==
    {c \in (0..MaxTimes) \X (0..(MaxTimes + 1)) \X DropTypes : c[2] <= c[1] + 1}

\* four 3-sided dice, the two lowest dropped
FourDrop == <<4, 2, "Low">>

\* the arguments of the four drop initializers: the base, then the counts
NewDropArgs == (DropSides \X DropCounts) \cup {<<3, FourDrop>>}
DropRangeArgs ==
    ((DropStarts \X DropEnds) \X DropCounts) \cup {<<<<1, 3>>, FourDrop>>}
DropValuesArgs == (DropValues \X DropCounts) \cup {<<<<1, 2, 3>>, FourDrop>>}
DropEntriesArgs ==
    (DropEntries \X DropCounts)
        \cup {<<[i \in 1..3 |-> Probability(i, <<1, 3>>)], FourDrop>>}

---------------------------------------------------------------------------
(* The caller *)

NoCallback == Callback("Equal", 0, <<>>, <<>>)

\* a call record with every input at its default
NoCall ==
    [op |-> "none", self |-> <<>>, other |-> <<>>, cb |-> NoCallback,
     n |-> 0, start |-> 0, end |-> 0, values |-> <<>>, probabilities |-> <<>>,
     range |-> 0, cond |-> "Equal", structs |-> <<>>,
     times |-> 0, drop_amount |-> 0, drop_condition |-> "High"]

\* nothing is built yet
Init ==
    /\ die = <<>>
    /\ call = NoCall
    /\ panicked = FALSE
    /\ build \in {"debug", "release"}
    /\ ops = 0

\* the expression starts with a constructor call
Fresh == call.op = "none"

\* and goes on with operator calls on its result; a panic ends the run
Holding == call.op # "none" /\ ~panicked /\ ops < MaxOps

Return(c, result) ==
    /\ die' = result
    /\ call' = c
    /\ panicked' = FALSE
    /\ ops' = ops + 1
    /\ UNCHANGED build

Panic(c) ==
    /\ die' = <<>>
    /\ call' = c
    /\ panicked' = TRUE
    /\ ops' = ops + 1
    /\ UNCHANGED build

\* an i32 overflow panics where overflow checks are on (debug) and wraps
\* where they are off (release)
Finish(c, overflows, result) ==
    IF overflows /\ build = "debug" THEN Panic(c) ELSE Return(c, result)

(* constructors of die.rs *)

Call_Die_empty ==
    /\ Fresh
    /\ Return([NoCall EXCEPT !.op = "Die::empty"], Die_empty)

Call_Die_new ==
    /\ Fresh
    /\ \E sides \in Sides :
        Return([NoCall EXCEPT !.op = "Die::new", !.n = sides], Die_new(sides))

Call_Die_from_range ==
    /\ Fresh
    /\ \E start \in RangeEnds, end \in RangeEnds :
        Return([NoCall EXCEPT !.op = "Die::from_range", !.start = start, !.end = end],
               Die_from_range(start, end))

Call_Die_from_values ==
    /\ Fresh
    /\ \E values \in ValueLists :
        Return([NoCall EXCEPT !.op = "Die::from_values", !.values = values],
               Die_from_values(values))

Call_Die_from_probabilities ==
    /\ Fresh
    /\ \E probabilities \in EntryLists :
        Return([NoCall EXCEPT !.op = "Die::from_probabilities",
                              !.probabilities = probabilities],
               Die_from_probabilities(probabilities))

(* constructors of normal_initializer.rs *)

Call_NormalInitializer_empty ==
    /\ Fresh
    /\ Return([NoCall EXCEPT !.op = "NormalInitializer::empty"], NormalInitializer_empty)

Call_NormalInitializer_new ==
    /\ Fresh
    /\ \E size \in Sides :
        Return([NoCall EXCEPT !.op = "NormalInitializer::new", !.n = size],
               NormalInitializer_new(size))

Call_NormalInitializer_from_range ==
    /\ Fresh
    /\ \E start \in RangeEnds, end \in RangeEnds :
        Return([NoCall EXCEPT !.op = "NormalInitializer::from_range",
                              !.start = start, !.end = end],
               NormalInitializer_from_range(start, end))

Call_NormalInitializer_from_values ==
    /\ Fresh
    /\ \E values \in ValueLists :
        Return([NoCall EXCEPT !.op = "NormalInitializer::from_values", !.values = values],
               NormalInitializer_from_values(values))

(* constructors of lib.rs *)

Call_Lib_new ==
    /\ Fresh
    /\ \E sides \in Sides :
        LET c == [NoCall EXCEPT !.op = "lib::Die::new", !.n = sides]
        IN  IF Lib_new_panics(sides) THEN Panic(c) ELSE Return(c, Lib_new(sides))

Call_Lib_from_range ==
    /\ Fresh
    /\ \E start \in RangeEnds, end \in RangeEnds :
        LET c == [NoCall EXCEPT !.op = "lib::Die::from_range",
                                !.start = start, !.end = end]
        IN  IF Lib_from_range_panics(start, end) THEN Panic(c)
            ELSE Return(c, Lib_from_range(start, end))

(* operators *)

Call_add_independent ==
    /\ Holding
    /\ \E other \in Operands :
        Finish([NoCall EXCEPT !.op = "add_independent", !.self = die, !.other = other],
               add_independent_overflows(die, other),
               add_independent(die, other))

Call_add_dependent ==
    /\ Holding
    /\ \E cb \in Callbacks :
        Finish([NoCall EXCEPT !.op = "add_dependent", !.self = die, !.cb = cb],
               add_dependent_overflows(die, cb),
               add_dependent(die, cb))

Call_conditional_chain ==
    /\ Holding
    /\ \E cb \in Callbacks :
        Return([NoCall EXCEPT !.op = "conditional_chain", !.self = die, !.cb = cb],
               conditional_chain(die, cb))

Call_Lib_conditional_chain ==
    /\ Holding
    /\ \E cb \in LibCallbacks :
        Return([NoCall EXCEPT !.op = "lib::conditional_chain", !.self = die, !.cb = cb],
               Lib_conditional_chain(die, cb))

Call_add_flat ==
    /\ Holding
    /\ \E flat_increase \in FlatIncreases :
        Finish([NoCall EXCEPT !.op = "add_flat", !.self = die, !.n = flat_increase],
               add_flat_overflows(die, flat_increase),
               add_flat(die, flat_increase))

(* exploding_initializer.rs: the trait's initializers *)

Call_ExplodingInitializer_new_exploding ==
    /\ Fresh
    /\ \E amount \in ExplodingSides, range \in ExplodingRanges,
          cond \in Conditions, exploding \in ExplodingDice :
        Finish([NoCall EXCEPT !.op = "ExplodingInitializer::new_exploding", !.n = amount,
                              !.range = range, !.cond = cond, !.other = exploding],
               add_dependent_overflows(NormalInitializer_new(amount),
                                       exploding_helper(range, cond, exploding)),
               ExplodingInitializer_new_exploding(amount, range, cond, exploding))

Call_ExplodingInitializer_exploding_from_range ==
    /\ Fresh
    /\ \E start \in ExplodingBounds, end \in ExplodingBounds, range \in ExplodingRanges,
          cond \in Conditions, exploding \in ExplodingDice :
        Finish([NoCall EXCEPT !.op = "ExplodingInitializer::exploding_from_range",
                              !.start = start, !.end = end,
                              !.range = range, !.cond = cond, !.other = exploding],
               add_dependent_overflows(NormalInitializer_from_range(start, end),
                                       exploding_helper(range, cond, exploding)),
               ExplodingInitializer_exploding_from_range(start, end, range, cond, exploding))

Call_ExplodingInitializer_exploding_from_values ==
    /\ Fresh
    /\ \E values \in ExplodingValues, range \in ExplodingRanges,
          cond \in Conditions, exploding \in ExplodingDice :
        Finish([NoCall EXCEPT !.op = "ExplodingInitializer::exploding_from_values",
                              !.values = values,
                              !.range = range, !.cond = cond, !.other = exploding],
               add_dependent_overflows(NormalInitializer_from_values(values),
                                       exploding_helper(range, cond, exploding)),
               ExplodingInitializer_exploding_from_values(values, range, cond, exploding))

Call_ExplodingInitializer_exploding_from_probabilities ==
    /\ Fresh
    /\ \E probabilities \in ExplodingEntries, range \in ExplodingRanges,
          cond \in Conditions, exploding \in ExplodingDice :
        Finish([NoCall EXCEPT !.op = "ExplodingInitializer::exploding_from_probabilities",
                              !.probabilities = probabilities,
                              !.range = range, !.cond = cond, !.other = exploding],
               add_dependent_overflows(NormalInitializer_from_probabilities(probabilities),
                                       exploding_helper(range, cond, exploding)),
               ExplodingInitializer_exploding_from_probabilities(probabilities, range, cond, exploding))

(* exploding_constructor.rs: impl ExplodingInitializer<i32, Die> for Die *)

Call_Die_new_exploding ==
    /\ Fresh
    /\ \E sides \in ExplodingSides, range \in ExplodingRanges,
          cond \in Conditions, exploding_die \in ExplodingDice :
        Finish([NoCall EXCEPT !.op = "Die::new_exploding", !.n = sides,
                              !.range = range, !.cond = cond, !.other = exploding_die],
               add_dependent_overflows(Die_new(sides),
                                       exploding_die_helper(range, cond, exploding_die)),
               Die_new_exploding(sides, range, cond, exploding_die))

Call_Die_exploding_from_range ==
    /\ Fresh
    /\ \E start \in ExplodingBounds, end \in ExplodingBounds, range \in ExplodingRanges,
          cond \in Conditions, exploding_die \in ExplodingDice :
        Finish([NoCall EXCEPT !.op = "Die::exploding_from_range",
                              !.start = start, !.end = end,
                              !.range = range, !.cond = cond, !.other = exploding_die],
               add_dependent_overflows(Die_from_range(start, end),
                                       exploding_die_helper(range, cond, exploding_die)),
               Die_exploding_from_range(start, end, range, cond, exploding_die))

Call_Die_exploding_from_values ==
    /\ Fresh
    /\ \E values \in ExplodingValues, range \in ExplodingRanges,
          cond \in Conditions, exploding_die \in ExplodingDice :
        Finish([NoCall EXCEPT !.op = "Die::exploding_from_values", !.values = values,
                              !.range = range, !.cond = cond, !.other = exploding_die],
               add_dependent_overflows(Die_from_values(values),
                                       exploding_die_helper(range, cond, exploding_die)),
               Die_exploding_from_values(values, range, cond, exploding_die))

Call_Die_exploding_from_probabilities ==
    /\ Fresh
    /\ \E probabilities \in ExplodingEntries, range \in ExplodingRanges,
          cond \in Conditions, exploding_die \in ExplodingDice :
        Finish([NoCall EXCEPT !.op = "Die::exploding_from_probabilities",
                              !.probabilities = probabilities,
                              !.range = range, !.cond = cond, !.other = exploding_die],
               add_dependent_overflows(Die_from_probabilities(probabilities),
                                       exploding_die_helper(range, cond, exploding_die)),
               Die_exploding_from_probabilities(probabilities, range, cond, exploding_die))

(* drop_initializer.rs *)

Call_drop_by_condition ==
    /\ Fresh
    /\ \E structs \in PoolLists, drop_condition \in DropTypes,
          drop_amount \in 0..(MaxTimes + 1) :
        /\ drop_amount <= Len(structs) + 1
        /\ Finish([NoCall EXCEPT !.op = "drop_by_condition", !.structs = structs,
                                 !.drop_condition = drop_condition,
                                 !.drop_amount = drop_amount],
                  drop_by_condition_overflows(structs, drop_condition, drop_amount),
                  drop_by_condition(structs, drop_condition, drop_amount))

Call_drop_from_probabilities ==
    /\ Fresh
    /\ \E args \in DropEntriesArgs :
        LET probabilities == args[1]
            times == args[2][1]
            drop_amount == args[2][2]
            drop_condition == args[2][3]
        IN  Finish([NoCall EXCEPT !.op = "drop_from_probabilities",
                                  !.probabilities = probabilities, !.times = times,
                                  !.drop_condition = drop_condition,
                                  !.drop_amount = drop_amount],
                   drop_by_condition_overflows(
                       Repeat(NormalInitializer_from_probabilities(probabilities), times),
                       drop_condition, drop_amount),
                   drop_from_probabilities(probabilities, times, drop_amount, drop_condition))

Call_drop_from_range ==
    /\ Fresh
    /\ \E args \in DropRangeArgs :
        LET start == args[1][1]
            end == args[1][2]
            times == args[2][1]
            drop_amount == args[2][2]
            drop_condition == args[2][3]
        IN  Finish([NoCall EXCEPT !.op = "drop_from_range",
                                  !.start = start, !.end = end, !.times = times,
                                  !.drop_condition = drop_condition,
                                  !.drop_amount = drop_amount],
                   drop_by_condition_overflows(
                       Repeat(NormalInitializer_from_range(start, end), times),
                       drop_condition, drop_amount),
                   drop_from_range(start, end, times, drop_amount, drop_condition))

Call_drop_from_values ==
    /\ Fresh
    /\ \E args \in DropValuesArgs :
        LET values == args[1]
            times == args[2][1]
            drop_amount == args[2][2]
            drop_condition == args[2][3]
        IN  Finish([NoCall EXCEPT !.op = "drop_from_values",
                                  !.values = values, !.times = times,
                                  !.drop_condition = drop_condition,
                                  !.drop_amount = drop_amount],
                   drop_by_condition_overflows(
                       Repeat(NormalInitializer_from_values(values), times),
                       drop_condition, drop_amount),
                   drop_from_values(values, times, drop_amount, drop_condition))

Call_new_drop ==
    /\ Fresh
    /\ \E args \in NewDropArgs :
        LET amount == args[1]
            times == args[2][1]
            drop_amount == args[2][2]
            drop_condition == args[2][3]
        IN  Finish([NoCall EXCEPT !.op = "new_drop", !.n = amount, !.times = times,
                                  !.drop_condition = drop_condition,
                                  !.drop_amount = drop_amount],
                   drop_by_condition_overflows(Repeat(NormalInitializer_new(amount), times),
                                               drop_condition, drop_amount),
                   new_drop(amount, times, drop_amount, drop_condition))

Next ==
    \/ Call_Die_empty
    \/ Call_Die_new
    \/ Call_Die_from_range
    \/ Call_Die_from_values
    \/ Call_Die_from_probabilities
    \/ Call_NormalInitializer_empty
    \/ Call_NormalInitializer_new
    \/ Call_NormalInitializer_from_range
    \/ Call_NormalInitializer_from_values
    \/ Call_Lib_new
    \/ Call_Lib_from_range
    \/ Call_add_independent
    \/ Call_add_dependent
    \/ Call_conditional_chain
    \/ Call_Lib_conditional_chain
    \/ Call_add_flat
    \/ Call_ExplodingInitializer_new_exploding
    \/ Call_ExplodingInitializer_exploding_from_range
    \/ Call_ExplodingInitializer_exploding_from_values
    \/ Call_ExplodingInitializer_exploding_from_probabilities
    \/ Call_Die_new_exploding
    \/ Call_Die_exploding_from_range
    \/ Call_Die_exploding_from_values
    \/ Call_Die_exploding_from_probabilities
    \/ Call_drop_by_condition
    \/ Call_drop_from_probabilities
    \/ Call_drop_from_range
    \/ Call_drop_from_values
    \/ Call_new_drop

Spec == Init /\ [][Next]_vars

---------------------------------------------------------------------------
(* Measures the properties are stated in *)

\* no value twice, values ascending
StrictlyAscending(d) ==
    \A i \in 1..(Len(d) - 1) : d[i].value < d[i + 1].value

\* the sum of the chances of the entries of X at the indices in I
RECURSIVE ChanceOver(_, _)
ChanceOver(X, I) ==
    IF I = {} THEN Zero
    ELSE LET j == CHOOSE k \in I : TRUE
         IN  ChanceAdd(X[j].chance, ChanceOver(X, I \ {j}))

\* the sum of all chances of an entry list
Total(X) == ChanceOver(X, DOMAIN X)

\* the values of an entry list
ValuesOf(X) == {X[i].value : i \in DOMAIN X}

\* the chance an entry list gives to v in all: 0 where v is no value of it
ChanceAt(X, v) == ChanceOver(X, {i \in DOMAIN X : X[i].value = v})

\* a call has returned a distribution
Returned == call.op # "none" /\ ~panicked

---------------------------------------------------------------------------
(* Properties *)

\* C1: whatever sequence of constructor and operator calls (drop and
\* exploding initializers included) has returned, the entry list of the
\* resulting distribution is strictly ascending by value: no value twice,
\* entries sorted ascending.
C1_StrictlyAscending == Returned => StrictlyAscending(die)

\* an operator call has merged equal sums into one entry and returned more
\* than one entry
C1_Witness ==
    /\ Returned
    /\ call.op = "add_independent"
    /\ Len(die) > 2
    /\ Len(die) < Len(call.self) * Len(call.other)

\* the calls C2 speaks of
ChainOps == {"add_dependent", "conditional_chain", "lib::conditional_chain"}
ExplodingOps ==
    {"ExplodingInitializer::new_exploding", "ExplodingInitializer::exploding_from_range",
     "ExplodingInitializer::exploding_from_values",
     "ExplodingInitializer::exploding_from_probabilities",
     "Die::new_exploding", "Die::exploding_from_range",
     "Die::exploding_from_values", "Die::exploding_from_probabilities"}

\* every distribution handed to the last call, and every distribution its
\* callback returns, has chances summing to exactly 1
InputsSumToOne ==
    /\ call.op \in ChainOps \cup {"add_independent", "add_flat"} =>
           Total(call.self) = One
    /\ call.op = "add_independent" => Total(call.other) = One
    /\ call.op \in ChainOps =>
           \A i \in DOMAIN call.self :
               Total(callback_fn(call.cb, call.self[i].value)) = One
    /\ call.op = "drop_by_condition" =>
           \A i \in DOMAIN call.structs : Total(call.structs[i]) = One
    /\ call.op \in ExplodingOps => Total(call.other) = One
    /\ call.op \in {"ExplodingInitializer::exploding_from_probabilities",
                    "Die::exploding_from_probabilities"} =>
           call.probabilities = <<>> \/ Total(call.probabilities) = One

\* C2: if every distribution passed in, and every distribution a callback
\* returns, has chances summing to exactly 1, then the result of
\* add_independent, add_dependent, conditional_chain, add_flat,
\* drop_by_condition and the exploding initializers has chances summing to
\* exactly 1, at every call of a sequence.
C2_ChancesSumToOne ==
    /\ Returned
    /\ call.op \in ChainOps \cup ExplodingOps
                   \cup {"add_independent", "add_flat", "drop_by_condition"}
    /\ InputsSumToOne
    => Total(die) = One

\* add_dependent has returned, from inputs summing to 1, a distribution in
\* which sums of several pairs were merged
C2_Witness ==
    /\ Returned
    /\ call.op = "add_dependent"
    /\ InputsSumToOne
    /\ Len(call.self) > 1
    /\ \E i \in DOMAIN die : die[i].chance \notin {call.self[j].chance : j \in DOMAIN call.self}
    /\ \E i \in DOMAIN call.self :
           Len(die) < Len(call.self) * Len(callback_fn(call.cb, call.self[i].value))

\* C3: from_probabilities(entries) returns the neutral distribution (one
\* entry, value 0, chance 1) when entries is empty; otherwise exactly one
\* entry per distinct input value, its chance the sum of the chances of all
\* input entries with that value, sorted ascending, not renormalized.
C3_FromProbabilities ==
    call.op = "Die::from_probabilities" =>
        IF call.probabilities = <<>>
        THEN ~panicked /\ die = <<[value |-> 0, chance |-> <<1, 1>>]>>
        ELSE /\ ~panicked
             /\ ValuesOf(die) = ValuesOf(call.probabilities)
             /\ Len(die) = Cardinality(ValuesOf(call.probabilities))
             /\ StrictlyAscending(die)
             /\ \A i \in DOMAIN die :
                    die[i].chance = ChanceAt(call.probabilities, die[i].value)

\* from_probabilities has merged two entries of one value, and the chances it
\* returns do not sum to 1
C3_Witness ==
    /\ call.op = "Die::from_probabilities"
    /\ Len(call.probabilities) = 2
    /\ Len(die) = 1
    /\ Total(die) # One

\* the entry list a state offers to compression: the entries handed to
\* from_probabilities, or the operator's input followed by its result
EntryListAt ==
    IF call.op = "Die::from_probabilities" THEN call.probabilities
    ELSE call.self \o die

\* C4: compression is idempotent and a round trip on compressed input: for an
\* entry list X, compress_additive(compress_additive(X)) has the values and
\* chances of compress_additive(X); the total chance of compress_additive(X)
\* is that of X; and for a distribution D that satisfies the invariant,
\* from_probabilities(D.get_probabilities()) has the values and chances of D.
C4_CompressIdempotentRoundTrip ==
    Returned =>
        LET X == EntryListAt
        IN  /\ compress_additive(compress_additive(X)) = compress_additive(X)
            /\ Total(compress_additive(X)) = Total(X)
            /\ StrictlyAscending(die) => Die_from_probabilities(die) = die

\* an entry list with one value at two places, whose chances do not sum to 1,
\* and a distribution of several entries to take the round trip
C4_Witness ==
    /\ Returned
    /\ Len(die) > 1
    /\ Total(EntryListAt) # One
    /\ \E i, j \in DOMAIN EntryListAt :
           i # j /\ EntryListAt[i].value = EntryListAt[j].value

\* the sum of the chances of a set of tagged chances <<tag.., chance>>
RECURSIVE SumTagged(_)
SumTagged(T) ==
    IF T = {} THEN Zero
    ELSE LET t == CHOOSE u \in T : TRUE
         IN  ChanceAdd(t[Len(t)], SumTagged(T \ {t}))

\* the uniform distribution over lo..hi, entry by entry
Uniform(lo, hi) ==
    [i \in 1..(hi - lo + 1) |-> [value |-> lo + (i - 1), chance |-> <<1, hi - lo + 1>>]]

\* the sums of the pairs (a in A, b in B), as i32 sums
PairSums(A, B) ==
    {I32Add(A[i].value, B[j].value) : i \in DOMAIN A, j \in DOMAIN B}

\* the sum of a.chance * b.chance over the pairs whose values sum to v
ConvolutionAt(A, B, v) ==
    SumTagged({<<p[1], p[2], ChanceMul(A[p[1]].chance, B[p[2]].chance)>> :
                  p \in {q \in (DOMAIN A) \X (DOMAIN B) :
                            I32Add(A[q[1]].value, B[q[2]].value) = v}})

\* C5: add_independent(A, B) returns the convolution: for every value v its
\* chance at v is the sum of a.chance * b.chance over the pairs (a in A, b in
\* B) with a.value + b.value = v, and it has no entry for a value that is no
\* such sum.  Two 6-sided dice give support exactly 2..12, chance 6/36 at 7
\* and mean 7.
C5_AddIndependentConvolution ==
    Returned /\ call.op = "add_independent" =>
        LET A == call.self
            B == call.other
        IN  /\ ValuesOf(die) = PairSums(A, B)
            /\ \A v \in PairSums(A, B) : ChanceAt(die, v) = ConvolutionAt(A, B, v)
            /\ A = Uniform(1, 6) /\ B = Uniform(1, 6) =>
                   /\ ValuesOf(die) = 2..12
                   /\ Len(die) = 11
                   /\ ChanceAt(die, 7) = Frac(6, 36)
                   /\ calc_mean(die) = <<7, 1>>

\* two 6-sided dice have been added
C5_Witness ==
    /\ Returned
    /\ call.op = "add_independent"
    /\ call.self = Uniform(1, 6)
    /\ call.other = Uniform(1, 6)

\* (A + B) + C and A + (B + C) both return: always where overflow wraps, and
\* where it panics if no sum on the way overflows
BothReturn(A, B, C) ==
    build = "debug" =>
        /\ ~add_independent_overflows(A, B)
        /\ ~add_independent_overflows(add_independent(A, B), C)
        /\ ~add_independent_overflows(B, C)
        /\ ~add_independent_overflows(A, add_independent(B, C))

\* C6: add_independent is commutative and associative: A.add_independent(B)
\* and B.add_independent(A) have the same values and chances, and so have
\* (A + B) + C and A + (B + C), for all distributions A, B, C.
C6_AddIndependentCommutativeAssociative ==
    Returned /\ call.op = "add_independent" =>
        LET A == call.self
            B == call.other
        IN  /\ add_independent(B, A) = die
            /\ \A C \in Operands :
                   BothReturn(A, B, C) =>
                       add_independent(die, C) = add_independent(A, add_independent(B, C))

\* two different distributions of several entries have been added, and a
\* third of several entries can be added to the sum
C6_Witness ==
    /\ Returned
    /\ call.op = "add_independent"
    /\ call.self # call.other
    /\ Len(call.self) > 1
    /\ Len(call.other) > 1
    /\ \E i \in DOMAIN call.other : call.other[i].chance # call.other[1].chance
    /\ \E C \in Operands : Len(C) > 1 /\ C # call.other /\ BothReturn(call.self, call.other, C)

\* the sums a.value + b.value over a in A and b in f(a.value)
DependentSums(A, cb) ==
    UNION {{I32Add(A[i].value, callback_fn(cb, A[i].value)[j].value) :
               j \in DOMAIN callback_fn(cb, A[i].value)} : i \in DOMAIN A}

\* the sum of a.chance * b.chance over those pairs whose values sum to v
DependentAt(A, cb, v) ==
    SumTagged(UNION {
        LET F == callback_fn(cb, A[i].value)
        IN  {<<i, j, ChanceMul(A[i].chance, F[j].chance)>> :
                j \in {k \in DOMAIN F : I32Add(A[i].value, F[k].value) = v}}
        : i \in DOMAIN A})

\* the 4-sided die that is followed by a 4-sided die on a 4 only
D4OnFour ==
    [cond |-> "Equal", range |-> 4, hit |-> Uniform(1, 4), miss |-> Uniform(0, 0)]

\* C7: add_dependent(A, f) gives every value v the sum of a.chance * b.chance
\* over the entries a of A and b of f(a.value) with a.value + b.value = v.  A
\* 4-sided die with f a 4-sided die for value 4 only (neutral otherwise) gives
\* 1, 2, 3 at 0.25 each and 5, 6, 7, 8 at 0.0625 each, and no entry at 4.
C7_AddDependent ==
    Returned /\ call.op = "add_dependent" =>
        LET A == call.self
        IN  /\ ValuesOf(die) = DependentSums(A, call.cb)
            /\ \A v \in DependentSums(A, call.cb) :
                   ChanceAt(die, v) = DependentAt(A, call.cb, v)
            /\ A = Uniform(1, 4) /\ call.cb = D4OnFour =>
                   die = [i \in 1..7 |->
                             IF i <= 3 THEN [value |-> i, chance |-> <<1, 4>>]
                             ELSE [value |-> i + 1, chance |-> <<1, 16>>]]

\* the 4-sided die has been followed by a 4-sided die on its 4
C7_Witness ==
    /\ Returned
    /\ call.op = "add_dependent"
    /\ call.self = Uniform(1, 4)
    /\ call.cb = D4OnFour

\* the values of the follow-up distributions
ChainValues(A, cb) ==
    UNION {ValuesOf(callback_fn(cb, A[i].value)) : i \in DOMAIN A}

\* the sum over a in A of a.chance * (chance of v in f(a.value))
ChainAt(A, cb, v) ==
    SumTagged({<<i, ChanceMul(A[i].chance, ChanceAt(callback_fn(cb, A[i].value), v))>> :
                  i \in DOMAIN A})

\* a 2-sided die chained with a 2-sided die after 1 and a 3-sided die after 2
D2ThenD2OrD3 ==
    [cond |-> "Equal", range |-> 1, hit |-> Uniform(1, 2), miss |-> Uniform(1, 3)]

\* C8: conditional_chain(A, f) gives every value v the sum over the entries a
\* of A of a.chance * (chance of v in f(a.value)); the values of A are never
\* added to the follow-up values.  A 2-sided die chained with f(1) = 2-sided,
\* f(2) = 3-sided gives 5/12, 5/12, 2/12 at 1, 2, 3.
C8_ConditionalChain ==
    Returned /\ call.op \in {"conditional_chain", "lib::conditional_chain"} =>
        LET A == call.self
        IN  /\ ValuesOf(die) = ChainValues(A, call.cb)
            /\ \A v \in ChainValues(A, call.cb) :
                   ChanceAt(die, v) = ChainAt(A, call.cb, v)
            /\ A = Uniform(1, 2) /\ call.cb = D2ThenD2OrD3 =>
                   die = <<[value |-> 1, chance |-> Frac(5, 12)],
                           [value |-> 2, chance |-> Frac(5, 12)],
                           [value |-> 3, chance |-> Frac(2, 12)]>>

\* the 2-sided die has been chained with the 2-sided and the 3-sided die
C8_Witness ==
    /\ Returned
    /\ call.op = "conditional_chain"
    /\ call.self = Uniform(1, 2)
    /\ call.cb = D2ThenD2OrD3

\* C9: add_flat(A, k) returns as many entries as A has, in the same order,
\* the i-th with value A[i].value + k and chance exactly A[i].chance, for
\* every A that satisfies the invariant and every k for which no value + k
\* overflows i32.
C9_AddFlat ==
    /\ Returned
    /\ call.op = "add_flat"
    /\ StrictlyAscending(call.self)
    /\ ~add_flat_overflows(call.self, call.n)
    => /\ Len(die) = Len(call.self)
       /\ \A i \in DOMAIN call.self :
              /\ die[i].value = call.self[i].value + call.n
              /\ die[i].chance = call.self[i].chance

\* a distribution of several entries, not all of one chance, has been shifted
C9_Witness ==
    /\ Returned
    /\ call.op = "add_flat"
    /\ call.n # 0
    /\ ~add_flat_overflows(call.self, call.n)
    /\ Len(call.self) > 1
    /\ call.self[1].chance # call.self[2].chance

\* C10: range construction with reversed bounds never fails: for all start,
\* end with end < start, from_range(start, end) returns normally and yields
\* the distribution from_range(end, start) yields.
C10_ReversedRangeReturns ==
    /\ call.op \in {"Die::from_range", "NormalInitializer::from_range",
                    "lib::Die::from_range"}
    /\ call.end < call.start
    => /\ ~panicked
       /\ die = Die_from_values(RangeInclusive(call.end, call.start))


\* C11: for all start <= end, from_range(start, end) yields exactly the
\* values start, start + 1, ..., end, both bounds included, each with chance
\* 1 / (end - start + 1); from_range(s, s) yields the single entry (s, 1).
C11_FromRangeUniform ==
    /\ call.op \in {"Die::from_range", "NormalInitializer::from_range",
                    "lib::Die::from_range"}
    /\ call.start <= call.end
    => /\ ~panicked
       /\ die = Uniform(call.start, call.end)


\* the neutral distribution: the single entry value 0, chance 1
Neutral == <<[value |-> 0, chance |-> <<1, 1>>]>>

Occurrences(values, v) == Cardinality({k \in DOMAIN values : values[k] = v})

\* C13: from_values of a non-empty list of n values gives each distinct value
\* the chance m/n, m being the number of times it occurs in the list, and
\* has no other entry; from_values of the empty list returns the neutral
\* distribution (value 0, chance 1) and does not fail.
C13_FromValues ==
    call.op \in {"Die::from_values", "NormalInitializer::from_values"} =>
        /\ ~panicked
        /\ call.values = <<>> => die = Neutral
        /\ call.values # <<>> =>
               /\ ValuesOf(die) = {call.values[k] : k \in DOMAIN call.values}
               /\ Len(die) = Cardinality(ValuesOf(die))
               /\ \A i \in DOMAIN die :
                      die[i].chance =
                          Frac(Occurrences(call.values, die[i].value), Len(call.values))

\* a list of three values, one of them twice, has been made a distribution
C13_Witness ==
    /\ Returned
    /\ call.op = "Die::from_values"
    /\ Len(call.values) = 3
    /\ Len(die) = 2
    /\ \E i \in DOMAIN die : die[i].chance = <<2, 3>>


Combinations(structs) ==
    LET longest == IF structs = <<>> THEN 0
                   ELSE CHOOSE n \in {Len(structs[i]) : i \in DOMAIN structs} :
                            \A i \in DOMAIN structs : Len(structs[i]) <= n
    IN  {c \in [DOMAIN structs -> 1..longest] :
            \A i \in DOMAIN structs : c[i] <= Len(structs[i])}

\* the product of the chances of the entries of a combination, over the
\* positions in I
RECURSIVE JointChance(_, _, _)
JointChance(structs, c, I) ==
    IF I = {} THEN One
    ELSE LET i == CHOOSE k \in I : TRUE
         IN  ChanceMul(structs[i][c[i]].chance, JointChance(structs, c, I \ {i}))

\* the sum of the values of the entries of a combination at the positions in I
RECURSIVE ValueSum(_, _, _)
ValueSum(structs, c, I) ==
    IF I = {} THEN 0
    ELSE LET i == CHOOSE k \in I : TRUE
         IN  structs[i][c[i]].value + ValueSum(structs, c, I \ {i})

\* m positions of a combination holding its largest values
LargestPositions(structs, c, m) ==
    CHOOSE I \in SUBSET (DOMAIN structs) :
        /\ Cardinality(I) = m
        /\ \A i \in I, j \in (DOMAIN structs) \ I :
               structs[i][c[i]].value >= structs[j][c[j]].value

\* m positions of a combination holding its smallest values
SmallestPositions(structs, c, m) ==
    CHOOSE I \in SUBSET (DOMAIN structs) :
        /\ Cardinality(I) = m
        /\ \A i \in I, j \in (DOMAIN structs) \ I :
               structs[i][c[i]].value <= structs[j][c[j]].value

\* how many values a combination of k keeps when d are dropped
Kept(k, d) == IF d >= k THEN 0 ELSE k - d

\* the sum of the k - d largest values of a combination
SumOfLargest(structs, c, d) ==
    ValueSum(structs, c, LargestPositions(structs, c, Kept(Len(structs), d)))

\* the sum of the k - d smallest values of a combination
SumOfSmallest(structs, c, d) ==
    ValueSum(structs, c, SmallestPositions(structs, c, Kept(Len(structs), d)))

\* the joint chance of all combinations whose k - d largest values sum to v
LargestAt(structs, d, v) ==
    SumTagged({<<c, JointChance(structs, c, DOMAIN structs)>> :
                  c \in {b \in Combinations(structs) : SumOfLargest(structs, b, d) = v}})

\* the joint chance of all combinations whose k - d smallest values sum to v
SmallestAt(structs, d, v) ==
    SumTagged({<<c, JointChance(structs, c, DOMAIN structs)>> :
                  c \in {b \in Combinations(structs) : SumOfSmallest(structs, b, d) = v}})

\* three uniform 2-sided dice
ThreeD2 == <<Uniform(1, 2), Uniform(1, 2), Uniform(1, 2)>>

C16_DropHigh ==
    Returned /\ call.op = "drop_by_condition" /\ call.drop_condition = "High" =>
        /\ ValuesOf(die) =
               {SumOfSmallest(call.structs, c, call.drop_amount) :
                   c \in Combinations(call.structs)}
        /\ \A i \in DOMAIN die :
               die[i].chance = SmallestAt(call.structs, call.drop_amount, die[i].value)

\* the highest of three 2-sided dice has been dropped
C16_Witness ==
    /\ Returned
    /\ call.op = "drop_by_condition"
    /\ call.drop_condition = "High"
    /\ call.structs = ThreeD2
    /\ call.drop_amount = 1
    /\ ChanceAt(die, 2) = <<1, 2>>


\* the call drop_by_condition(three 2-sided dice, Low, 1) has returned
LowOneOfThreeD2 ==
    /\ Returned
    /\ call.op = "drop_by_condition"
    /\ call.drop_condition = "Low"
    /\ call.drop_amount = 1
    /\ call.structs = ThreeD2

DropOps == {"new_drop", "drop_from_range", "drop_from_values", "drop_from_probabilities"}

\* the number n >= 1 of sides the last drop initializer call was given as
\* new_drop(n), as the range (1, n), as a list of the values 1..n or as
\* entries of chance 1/n over the values 1..n; 0 where it was given none
DropBase ==
    CASE call.op = "new_drop" -> IF call.n >= 1 THEN call.n ELSE 0
      [] call.op = "drop_from_range" ->
             IF call.start = 1 /\ call.end >= 1 THEN call.end ELSE 0
      [] call.op = "drop_from_values" ->
             IF {call.values[k] : k \in DOMAIN call.values} = 1..Len(call.values)
             THEN Len(call.values) ELSE 0
      [] call.op = "drop_from_probabilities" ->
             IF /\ ValuesOf(call.probabilities) = 1..Len(call.probabilities)
                /\ \A k \in DOMAIN call.probabilities :
                       call.probabilities[k].chance = <<1, Len(call.probabilities)>>
             THEN Len(call.probabilities) ELSE 0
      [] OTHER -> 0

\* C18: the four drop initializers agree: for the same times, drop_amount and
\* direction, new_drop(n, ...), drop_from_range(1, n, ...),
\* drop_from_values([1..n], ...) and drop_from_probabilities(uniform entries
\* over 1..n, ...) return distributions with identical values and identical
\* chances; for n = 3, times = 4, drop 2 lowest the chances at 2..6 are 1/81,
\* 4/81, 15/81, 28/81, 33/81.
C18_DropInitializersAgree ==
    Returned /\ call.op \in DropOps /\ DropBase >= 1 =>
        LET n == DropBase
            t == call.times
            d == call.drop_amount
            c == call.drop_condition
        IN  /\ die = new_drop(n, t, d, c)
            /\ die = drop_from_range(1, n, t, d, c)
            /\ die = drop_from_values(RangeInclusive(1, n), t, d, c)
            /\ die = drop_from_probabilities(Uniform(1, n), t, d, c)
            /\ n = 3 /\ t = 4 /\ d = 2 /\ c = "Low" =>
                   die = <<[value |-> 2, chance |-> Frac(1, 81)],
                           [value |-> 3, chance |-> Frac(4, 81)],
                           [value |-> 4, chance |-> Frac(15, 81)],
                           [value |-> 5, chance |-> Frac(28, 81)],
                           [value |-> 6, chance |-> Frac(33, 81)]>>

\* the two lowest of four 3-sided dice have been dropped by the initializer
\* that takes a list of values
C18_Witness ==
    /\ Returned
    /\ call.op = "drop_from_values"
    /\ call.values = <<1, 2, 3>>
    /\ call.times = 4
    /\ call.drop_amount = 2
    /\ call.drop_condition = "Low"
    /\ ChanceAt(die, 6) = Frac(33, 81)


\* -1, 0 or 1 as v is below, at or above t
Side(v, t) == IF v = t THEN 0 ELSE IF v - t \in Nat THEN 1 ELSE -1

\* the sides of the threshold a comparator lets explode
SidesOf(c) ==
    CASE c = "Lower" -> {-1}
      [] c = "LowerOrEqual" -> {-1, 0}
      [] c = "Equal" -> {0}
      [] c = "GreaterOrEqual" -> {0, 1}
      [] c = "Greater" -> {1}

\* how far around the threshold the callback is probed
ProbeWidth == 2

\* C19: the exploding callback built from (threshold t, comparator c,
\* explosion distribution E) returns a copy of E for exactly those input
\* values v for which v c t holds, for each of the five comparators (<, <=,
\* ==, >=, >), and returns the neutral distribution (value 0, chance 1) for
\* every other v.
C19_ExplodingCallback ==
    call.op \in ExplodingOps =>
        \A v \in (call.range - ProbeWidth)..(call.range + ProbeWidth) :
            LET holds == Side(v, call.range) \in SidesOf(call.cond)
                P == callback_fn(exploding_helper(call.range, call.cond, call.other), v)
                D == callback_fn(exploding_die_helper(call.range, call.cond, call.other), v)
            IN  /\ holds => P = call.other /\ D = call.other
                /\ ~holds => P = Neutral /\ D = Neutral

\* an exploding initializer has been called with a comparator that lets the
\* threshold itself explode and the value below it not, and with an explosion
\* distribution other than the neutral one
C19_Witness ==
    /\ Returned
    /\ call.op = "Die::new_exploding"
    /\ call.cond = "GreaterOrEqual"
    /\ call.other # Neutral
    /\ callback_fn(exploding_die_helper(call.range, call.cond, call.other), call.range)
           = call.other
    /\ callback_fn(exploding_die_helper(call.range, call.cond, call.other), call.range - 1)
           = Neutral

\* the base distribution the last exploding initializer call built
ExplodingBase ==
    CASE call.op = "ExplodingInitializer::new_exploding" -> NormalInitializer_new(call.n)
      [] call.op = "ExplodingInitializer::exploding_from_range" ->
             NormalInitializer_from_range(call.start, call.end)
      [] call.op = "ExplodingInitializer::exploding_from_values" ->
             NormalInitializer_from_values(call.values)
      [] call.op = "ExplodingInitializer::exploding_from_probabilities" ->
             NormalInitializer_from_probabilities(call.probabilities)
      [] call.op = "Die::new_exploding" -> Die_new(call.n)
      [] call.op = "Die::exploding_from_range" -> Die_from_range(call.start, call.end)
      [] call.op = "Die::exploding_from_values" -> Die_from_values(call.values)
      [] call.op = "Die::exploding_from_probabilities" ->
             Die_from_probabilities(call.probabilities)

\* the exploding callback of the last call: the explosion distribution where
\* the comparison holds, the neutral distribution elsewhere
ExplodingCallback == Callback(call.cond, call.range, call.other, Neutral)

\* C20: new_exploding, exploding_from_range, exploding_from_values and
\* exploding_from_probabilities all equal add_dependent of the corresponding
\* base distribution with the exploding callback; for a 2-sided base,
\* threshold 1, comparator <=, explosion 2-sided, each returns value 2 with
\* chance 3/4 and value 3 with chance 1/4.
C20_ExplodingIsAddDependent ==
    Returned /\ call.op \in ExplodingOps =>
        /\ die = add_dependent(ExplodingBase, ExplodingCallback)
        /\ ValuesOf(die) = DependentSums(ExplodingBase, ExplodingCallback)
        /\ \A i \in DOMAIN die :
               die[i].chance = DependentAt(ExplodingBase, ExplodingCallback, die[i].value)
        /\ /\ ExplodingBase = Uniform(1, 2)
           /\ call.range = 1
           /\ call.cond = "LowerOrEqual"
           /\ call.other = Uniform(1, 2)
           => die = <<[value |-> 2, chance |-> <<3, 4>>],
                      [value |-> 3, chance |-> <<1, 4>>]>>

\* a 2-sided die exploding on 1 or less into a 2-sided die has been built
C20_Witness ==
    /\ Returned
    /\ call.op = "Die::new_exploding"
    /\ call.n = 2
    /\ call.range = 1
    /\ call.cond = "LowerOrEqual"
    /\ call.other = Uniform(1, 2)
    /\ ChanceAt(die, 2) = <<3, 4>>


\* the comparator of the last exploding call holds of v
Explodes(v) == Side(v, call.range) \in SidesOf(call.cond)

\* the values one level of explosion can give: a base value the comparator
\* does not hold of, or a base value it holds of plus one explosion value
OneLevelValues ==
    {ExplodingBase[i].value : i \in {k \in DOMAIN ExplodingBase : ~Explodes(ExplodingBase[k].value)}}
    \cup {ExplodingBase[i].value + call.other[j].value :
             i \in {k \in DOMAIN ExplodingBase : Explodes(ExplodingBase[k].value)},
             j \in DOMAIN call.other}

\* the largest value of an entry list
MaxValue(X) == CHOOSE v \in ValuesOf(X) : \A w \in ValuesOf(X) : w <= v

\* the smallest value of an entry list
MinValue(X) == CHOOSE v \in ValuesOf(X) : \A w \in ValuesOf(X) : v <= w

\* C21: an exploding initializer applies exactly one level of explosion:
\* every value of the result is either a base value that does not satisfy the
\* comparator, or the sum of one base value that satisfies it and exactly one
\* value of the explosion distribution; the comparator is not evaluated again
\* on the added value, so the result's maximum never exceeds max(base) +
\* max(explosion) when the explosion values are non-negative.
C21_OneLevelOfExplosion ==
    Returned /\ call.op \in ExplodingOps =>
        /\ ValuesOf(die) = OneLevelValues
        /\ (\A j \in DOMAIN call.other : call.other[j].value >= 0) =>
               MaxValue(die) <= MaxValue(ExplodingBase) + MaxValue(call.other)

\* an exploding initializer has returned a value the comparator holds of,
\* made of a base value and an explosion value
C21_Witness ==
    /\ Returned
    /\ call.op = "Die::exploding_from_range"
    /\ call.cond = "GreaterOrEqual"
    /\ \E i \in DOMAIN ExplodingBase :
           /\ Explodes(ExplodingBase[i].value)
           /\ MaxValue(die) = ExplodingBase[i].value + MaxValue(call.other)
    /\ Explodes(MaxValue(die))
    /\ MaxValue(die) > MaxValue(ExplodingBase)


\* the callback of the last call returns the neutral distribution for every
\* value of the distribution it was called on
CallbackAllNeutral ==
    \A i \in DOMAIN call.self : callback_fn(call.cb, call.self[i].value) = Neutral

\* C22: the neutral distribution is the identity element under dependent
\* chaining: add_dependent(A, f) with f returning the neutral distribution
\* for every value has exactly the values and chances of A; likewise
\* add_independent(A, empty()) has exactly the values and chances of A.
C22_NeutralIsIdentity ==
    /\ call.op = "add_dependent" /\ CallbackAllNeutral =>
           ~panicked /\ die = call.self
    /\ call.op = "add_independent" /\ call.other = Neutral =>
           ~panicked /\ die = call.self

\* a distribution of several entries, not all of one chance, has been chained
\* with a callback that is neutral on each of its values
C22_Witness ==
    /\ Returned
    /\ call.op = "add_dependent"
    /\ CallbackAllNeutral
    /\ call.cb.hit # Neutral
    /\ Len(call.self) > 1
    /\ call.self[1].chance # call.self[2].chance


\* C23 as stated: the neutral distribution is the identity element under
\* conditional weighting: conditional_chain(A, f) with f returning the
\* neutral distribution for every value yields a distribution with the values
\* and chances of A.
C23_ChainNeutralGivesSelf ==
    call.op = "conditional_chain" /\ CallbackAllNeutral =>
        ~panicked /\ die = call.self

\* C23, amended: conditional_chain(A, f) with f returning the neutral
\* distribution for every value yields the neutral distribution: the single
\* entry of value 0 whose chance is the sum of the chances of A (1 for a
\* distribution whose chances sum to 1), whatever the values of A are.
C23_ChainNeutralGivesNeutral ==
    call.op = "conditional_chain" /\ CallbackAllNeutral =>
        /\ ~panicked
        /\ die = <<[value |-> 0, chance |-> Total(call.self)]>>
        /\ Total(call.self) = One => die = Neutral

\* a distribution of several entries has been weighted with a callback that
\* is neutral on each of its values
C23_Witness ==
    /\ Returned
    /\ call.op = "conditional_chain"
    /\ CallbackAllNeutral
    /\ Len(call.self) > 1
    /\ call.self # Neutral
    /\ die = Neutral


\* C24: every distribution reachable through the public constructors and
\* operators has at least one entry, so get_min and get_max (which unwrap the
\* minimum / maximum entry) never fail and return the smallest and the
\* largest value of the entry list.
C24_NeverEmpty ==
    Returned =>
        /\ Len(die) >= 1
        /\ ~get_min_panics(die)
        /\ ~get_max_panics(die)
        /\ get_min(die) \in ValuesOf(die)
        /\ get_max(die) \in ValuesOf(die)
        /\ \A v \in ValuesOf(die) : get_min(die) <= v /\ v <= get_max(die)

\* an operator has been applied to the neutral distribution a constructor
\* made of nothing, and the result has a smallest value below its largest
C24_Witness ==
    /\ Returned
    /\ call.op = "add_independent"
    /\ call.self = Neutral
    /\ Len(die) > 1
    /\ get_min(die) < get_max(die)


\* C25: no composition operator can fail for well-typed inputs:
\* add_independent, add_dependent, conditional_chain and add_flat return a
\* distribution (never panic or error) for every pair of i32-valued
\* distributions, every i32 shift constant and every total callback.
C25_OperatorsNeverFail ==
    call.op \in {"add_independent", "add_dependent", "conditional_chain", "add_flat"} =>
        ~panicked /\ Len(die) >= 1


\* the values of an entry list are a run of consecutive integers
Consecutive(X) ==
    /\ X # <<>>
    /\ \A v \in ValuesOf(X) : v = MaxValue(X) \/ v + 1 \in ValuesOf(X)

\* C26 as stated: for all distributions A and B, add_independent(A, B) has at
\* most |A| + |B| - 1 entries, |X| being the number of entries of X.
C26_AtMostSumOfLengths ==
    Returned /\ call.op = "add_independent" =>
        Len(die) <= Len(call.self) + Len(call.other) - 1

\* C26, amended: for all distributions A and B, add_independent(A, B) has at
\* most |A| * |B| entries, and at most |A| + |B| - 1 entries when the values
\* of A and the values of B are each a run of consecutive integers.
C26_AtMostProductOfLengths ==
    Returned /\ call.op = "add_independent" =>
        /\ Len(die) <= Len(call.self) * Len(call.other)
        /\ Consecutive(call.self) /\ Consecutive(call.other) =>
               Len(die) <= Len(call.self) + Len(call.other) - 1

\* two distributions of several consecutive values each have been added, and
\* equal sums have been merged
C26_Witness ==
    /\ Returned
    /\ call.op = "add_independent"
    /\ Consecutive(call.self)
    /\ Consecutive(call.other)
    /\ Len(call.self) > 1
    /\ Len(call.other) > 2
    /\ Len(die) = Len(call.self) + Len(call.other) - 1


\* the i32 r is the sum of a and b as integers (no i32 is, where the sum
\* leaves the i32 range)
IsSum(r, a, b) == ~I32Overflows(a, b) /\ r = a + b

\* C27: for all distributions A and B, get_min(A + B) = get_min(A) +
\* get_min(B) and get_max(A + B) = get_max(A) + get_max(B), + on
\* distributions being add_independent (a 2-sided die plus uniform {3, 4, 5}
\* has min 4 and max 7).
C27_MinMaxOfSum ==
    Returned /\ call.op = "add_independent" =>
        /\ IsSum(get_min(die), get_min(call.self), get_min(call.other))
        /\ IsSum(get_max(die), get_max(call.self), get_max(call.other))


\* the values of an entry list, in its order
ValueList(X) == [i \in DOMAIN X |-> X[i].value]

\* an entry list with the values of X and half the chance at each
Halved(X) == [i \in DOMAIN X |-> [value |-> X[i].value, chance |-> ChanceMul(X[i].chance, <<1, 2>>)]]

\* C28: equality of two Die values compares only the ordered list of values
\* and ignores chances: two distributions with the same support but different
\* chances compare equal (so assert_eq on dice or on entry lists does not
\* check any chance).
C28_EqualityIgnoresChances ==
    Returned =>
        /\ \A X \in Operands \cup {Halved(die)} :
               Die_eq(die, X) <=> ValueList(die) = ValueList(X)
        /\ Halved(die) # die
        /\ Die_eq(die, Halved(die))

\* the distribution held compares equal to a distribution of the same
\* values and other chances, and unequal to one of other values
C28_Witness ==
    /\ Returned
    /\ Len(die) > 1
    /\ \E X \in Operands :
           /\ Die_eq(die, X)
           /\ \E i \in DOMAIN X : X[i].chance # die[i].chance
    /\ \E X \in Operands : ~Die_eq(die, X)


\* D1.add_independent(D2)...add_independent(Dn) for the first n >= 1
\* distributions of a list
RECURSIVE AddAll(_, _)
AddAll(structs, n) ==
    IF n = 1 THEN structs[1]
    ELSE add_independent(AddAll(structs, n - 1), structs[n])

\* C29: with drop count 0, drop_by_condition on distributions D1..Dk
\* (k >= 1), for either direction, returns the same values and chances as
\* D1.add_independent(D2)...add_independent(Dk).
C29_DropNothingIsSum ==
    /\ Returned
    /\ call.op = "drop_by_condition"
    /\ call.drop_amount = 0
    /\ Len(call.structs) >= 1
    => die = AddAll(call.structs, Len(call.structs))

\* nothing has been dropped of two distributions that differ, lowest first
C29_Witness ==
    /\ Returned
    /\ call.op = "drop_by_condition"
    /\ call.drop_amount = 0
    /\ call.drop_condition = "Low"
    /\ Len(call.structs) = 2
    /\ call.structs[1] # call.structs[2]
    /\ Len(die) = 4


\* how many distributions the last drop call combined
DropPool == IF call.op = "drop_by_condition" THEN Len(call.structs) ELSE call.times

\* C30: the drop initializers are total at the boundaries: when drop_amount
\* >= times (with times >= 1) every value of every combination is removed and
\* the result is the single entry (0, total chance 1), and when times = 0 the
\* cross-product is empty and the result is the neutral distribution; neither
\* case fails.
C30_DropBoundaries ==
    call.op \in DropOps \cup {"drop_by_condition"} =>
        /\ DropPool >= 1 /\ call.drop_amount >= DropPool =>
               /\ ~panicked
               /\ Len(die) = 1
               /\ die[1].value = 0
               /\ die[1].chance = One
        /\ DropPool = 0 => ~panicked /\ die = Neutral

\* more values than there are dice have been dropped of several 2-sided dice
C30_Witness ==
    /\ Returned
    /\ call.op = "new_drop"
    /\ call.n = 2
    /\ call.times > 1
    /\ call.drop_amount > call.times
    /\ die = Neutral

=============================================================================
